---- MODULE Spec2Model ----
(***************************************************************************)
(* The configuration registry of src/app/core/configRegistry.ts: the      *)
(* validator, the insertion-ordered store filled by loadConfigurations,   *)
(* the resolver and the derived views.                                     *)
(*                                                                         *)
(* A JavaScript object is a record whose DOMAIN is the set of properties   *)
(* it has: an absent property is a field that is not in the DOMAIN.  A     *)
(* string that the code only tests or compares is a TLA+ string; a string  *)
(* the code searches or rewrites (companyName, domain, subdomain) is a     *)
(* sequence of one-character strings.  Sections of ICustomerConfig that    *)
(* no operation of the registry reads (pricing, analytics, logo, dates)   *)
(* are left out of the records.                                            *)
(***************************************************************************)
EXTENDS Integers, Sequences, FiniteSets, TLC

VARIABLES configs, phase, last, registered

vars == <<configs, phase, last, registered>>

(***************************************************************************)
(* Bounds                                                                  *)
(***************************************************************************)
\* longest locations list among the validator's inputs
MaxLocations == 2
\* longest tenants list among the validator's inputs
MaxTenants == 2

(***************************************************************************)
(* JavaScript values                                                       *)
(***************************************************************************)
\* o.k1?.k2?. ... is defined (every property on the path is present)
RECURSIVE HasPath(_, _)
HasPath(o, path) ==
  IF path = <<>> THEN TRUE
  ELSE /\ Head(path) \in DOMAIN o
       /\ HasPath(o[Head(path)], Tail(path))

RECURSIVE GetPath(_, _)
GetPath(o, path) ==
  IF path = <<>> THEN o ELSE GetPath(o[Head(path)], Tail(path))

\* !o.k1?.k2 on a string property: absent and "" are both falsy
FalsyStr(o, path) == ~HasPath(o, path) \/ GetPath(o, path) = ""
\* the same on a string kept as a sequence of characters
FalsyChars(o, path) == ~HasPath(o, path) \/ GetPath(o, path) = <<>>
\* o.k1?.k2 on a boolean property: absent is falsy
TruthyBool(o, path) == HasPath(o, path) /\ GetPath(o, path) = TRUE

\* an absent entry of an array (undefined or null): reading a property of it
\* raises a TypeError
undefinedEntry == [isUndefined |-> TRUE]

\* what a call produces: a value, null, undefined, or a raised error
Ret(v) == [kind |-> "value", value |-> v]
Null == [kind |-> "null"]
Undefined == [kind |-> "undefined"]
Throw(e) == [kind |-> "throw", error |-> e]

\* an object's own enumerable properties in insertion order (Object.entries):
\* the compliance section is kept as this sequence of entries
Entry(k, v) == [key |-> k, value |-> v]

RECURSIVE EntryHas(_, _)
EntryHas(entries, k) ==
  IF entries = <<>> THEN FALSE
  ELSE Head(entries).key = k \/ EntryHas(Tail(entries), k)

RECURSIVE EntryGet(_, _)
EntryGet(entries, k) ==
  IF Head(entries).key = k THEN Head(entries).value
  ELSE EntryGet(Tail(entries), k)

\* config.compliance?.<block>?.enabled
ComplianceEnabled(config, block) ==
  /\ "compliance" \in DOMAIN config
  /\ EntryHas(config.compliance, block)
  /\ TruthyBool(EntryGet(config.compliance, block), <<"enabled">>)

(***************************************************************************)
(* Validator                                                               *)
(***************************************************************************)
\* the body of config.locations.forEach((location, index) => ...)
LocationErrors(location, index) ==
     (IF FalsyStr(location, <<"id">>)
        THEN <<"Location " \o ToString(index) \o " missing id">> ELSE <<>>)
  \o (IF FalsyStr(location, <<"name">>)
        THEN <<"Location " \o ToString(index) \o " missing name">> ELSE <<>>)
  \o (IF FalsyStr(location, <<"address", "street">>)
        THEN <<"Location " \o ToString(index) \o " missing address.street">>
        ELSE <<>>)

\* the body of config.tenants.forEach((tenant, index) => ...)
TenantErrors(tenant, index) ==
     (IF FalsyStr(tenant, <<"id">>)
        THEN <<"Tenant " \o ToString(index) \o " missing id">> ELSE <<>>)
  \o (IF FalsyChars(tenant, <<"domain">>)
        THEN <<"Tenant " \o ToString(index) \o " missing domain">> ELSE <<>>)

\* errors pushed by forEach over the entries from position index (0-based) on
RECURSIVE ForEachLocation(_, _)
ForEachLocation(locations, index) ==
  IF index >= Len(locations) THEN <<>>
  ELSE LocationErrors(locations[index + 1], index)
         \o ForEachLocation(locations, index + 1)

RECURSIVE ForEachTenant(_, _)
ForEachTenant(tenants, index) ==
  IF index >= Len(tenants) THEN <<>>
  ELSE TenantErrors(tenants[index + 1], index)
         \o ForEachTenant(tenants, index + 1)

\* forEach reaches an absent entry and reads a property of it
ReadsUndefinedEntry(config, list) ==
  /\ list \in DOMAIN config
  /\ \E i \in 1..Len(config[list]) : config[list][i] = undefinedEntry

\* "Required field validations"
RequiredFieldErrors(config) ==
     (IF FalsyStr(config, <<"customerId">>)
        THEN <<"customerId is required">> ELSE <<>>)
  \o (IF FalsyStr(config, <<"customerName">>)
        THEN <<"customerName is required">> ELSE <<>>)
  \o (IF FalsyStr(config, <<"industryType">>)
        THEN <<"industryType is required">> ELSE <<>>)

\* "Branding validations"
BrandingErrors(config) ==
     (IF FalsyChars(config, <<"branding", "companyName">>)
        THEN <<"branding.companyName is required">> ELSE <<>>)
  \o (IF FalsyStr(config, <<"branding", "colors", "primary">>)
        THEN <<"branding.colors.primary is required">> ELSE <<>>)

\* "Location validations"
LocationsErrors(config) ==
  IF "locations" \notin DOMAIN config \/ Len(config.locations) = 0
  THEN <<"At least one location is required">>
  ELSE ForEachLocation(config.locations, 0)

\* "Tenant validations"
TenantsErrors(config) ==
  IF "tenants" \notin DOMAIN config \/ Len(config.tenants) = 0
  THEN <<"At least one tenant is required">>
  ELSE ForEachTenant(config.tenants, 0)

\* the compliance rules firing only on a flag that is present and false
ComplianceErrors_presentFlagOnly(config) ==
     (IF /\ ComplianceEnabled(config, "hipaa")
         /\ HasPath(config, <<"security", "encryption", "dataAtRest">>)
         /\ ~config.security.encryption.dataAtRest
        THEN <<"Data at rest encryption is required for HIPAA compliance">>
        ELSE <<>>)
  \o (IF /\ ComplianceEnabled(config, "pciDss")
         /\ HasPath(config, <<"security", "encryption", "dataInTransit">>)
         /\ ~config.security.encryption.dataInTransit
        THEN <<"Data in transit encryption is required for PCI DSS compliance">>
        ELSE <<>>)

\* "Compliance validations"
ComplianceErrors(config) ==
     (IF /\ ComplianceEnabled(config, "hipaa")
         /\ ~TruthyBool(config, <<"security", "encryption", "dataAtRest">>)
        THEN <<"Data at rest encryption is required for HIPAA compliance">>
        ELSE <<>>)
  \o (IF /\ ComplianceEnabled(config, "pciDss")
         /\ ~TruthyBool(config, <<"security", "encryption", "dataInTransit">>)
        THEN <<"Data in transit encryption is required for PCI DSS compliance">>
        ELSE <<>>)

\* a validator that stops at the first section that reports an error
ValidateErrors_firstSection(config) ==
  IF RequiredFieldErrors(config) # <<>> THEN RequiredFieldErrors(config)
  ELSE IF BrandingErrors(config) # <<>> THEN BrandingErrors(config)
  ELSE IF LocationsErrors(config) # <<>> THEN LocationsErrors(config)
  ELSE IF TenantsErrors(config) # <<>> THEN TenantsErrors(config)
  ELSE ComplianceErrors(config)

\* the errors array when validateConfig returns
ValidateErrors(config) ==
  RequiredFieldErrors(config) \o BrandingErrors(config)
    \o LocationsErrors(config) \o TenantsErrors(config)
    \o ComplianceErrors(config)

\* "Security validations": the warnings array when validateConfig returns
ValidateWarnings(config) ==
     (IF /\ HasPath(config, <<"security", "authentication", "passwordPolicy",
                              "minLength">>)
         /\ config.security.authentication.passwordPolicy.minLength < 8
        THEN <<"Password minimum length should be at least 8 characters">>
        ELSE <<>>)
  \o (IF /\ ~TruthyBool(config, <<"security", "authentication", "mfaRequired">>)
         /\ ComplianceEnabled(config, "hipaa")
        THEN <<"MFA should be required for HIPAA compliance">> ELSE <<>>)

validateConfig(config) ==
  IF ReadsUndefinedEntry(config, "locations")
       \/ ReadsUndefinedEntry(config, "tenants")
  THEN Throw("TypeError")
  ELSE Ret([isValid |-> Len(ValidateErrors(config)) = 0,
            errors |-> ValidateErrors(config),
            warnings |-> ValidateWarnings(config)])

(***************************************************************************)
(* Configuration records: the static data handed to the registry          *)
(***************************************************************************)
\* o without its property k
Without(o, k) == [f \in DOMAIN o \ {k} |-> o[f]]
\* o with property k set to v
With(o, k, v) == [f \in DOMAIN o \cup {k} |-> IF f = k THEN v ELSE o[f]]
\* the sequences over S of length at most n
SeqsUpTo(S, n) == UNION {[1..k -> S] : k \in 0..n}

okLocation ==
  [id |-> "L1", name |-> "Flagship", address |-> [street |-> "1 Main St"]]

LocationEntries ==
  { okLocation,
    Without(okLocation, "id"),
    With(okLocation, "name", ""),
    Without(okLocation, "address"),
    With(okLocation, "address", [city |-> "Salem"]),
    undefinedEntry }

Tenant(id, domain, subdomain, isActive) ==
  [id |-> id, domain |-> domain, subdomain |-> subdomain,
   isActive |-> isActive]

acmeTenant == Tenant("T1", <<"a", "c", ".", "i", "o">>, <<"a", "c">>, TRUE)
widgetTenant == Tenant("T1", <<"w", ".", "i", "o">>, <<"w">>, TRUE)
\* reachable by its exact domain only: the domain does not hold the subdomain
exactTenant == Tenant("T2", <<"x", ".", "i", "o">>, <<"s", "u", "b">>, TRUE)

TenantEntries ==
  { acmeTenant,
    With(acmeTenant, "isActive", FALSE),
    Without(acmeTenant, "id"),
    With(acmeTenant, "domain", <<>>),
    undefinedEntry }

Block(enabled) == [enabled |-> enabled]
\* the array requiredFrameworks: an object that has no property "enabled"
requiredFrameworks == [length |-> 2]

\* the blocks in the order IComplianceConfig declares them
declaredCompliance ==
  << Entry("requiredFrameworks", requiredFrameworks),
     Entry("hipaa", Block(TRUE)), Entry("gdpr", Block(FALSE)),
     Entry("sox", Block(FALSE)), Entry("pciDss", Block(TRUE)) >>
\* a record that lists pciDss before hipaa
reorderedCompliance ==
  << Entry("pciDss", Block(TRUE)), Entry("sox", Block(FALSE)),
     Entry("requiredFrameworks", requiredFrameworks),
     Entry("hipaa", Block(TRUE)), Entry("gdpr", Block(TRUE)) >>
gdprOnlyCompliance ==
  << Entry("requiredFrameworks", requiredFrameworks),
     Entry("hipaa", Block(FALSE)), Entry("gdpr", Block(TRUE)),
     Entry("sox", Block(FALSE)), Entry("pciDss", Block(FALSE)) >>
\* a record with a block the interface does not declare
extraCompliance ==
  << Entry("requiredFrameworks", requiredFrameworks),
     Entry("hipaa", Block(FALSE)), Entry("gdpr", Block(FALSE)),
     Entry("sox", Block(TRUE)), Entry("pciDss", Block(FALSE)),
     Entry("ccpa", Block(TRUE)) >>

Security(mfaRequired, minLength, dataAtRest, dataInTransit) ==
  [authentication |-> [mfaRequired |-> mfaRequired,
                       passwordPolicy |-> [minLength |-> minLength]],
   encryption |-> [dataAtRest |-> dataAtRest,
                   dataInTransit |-> dataInTransit]]

strongSecurity == Security(TRUE, 12, TRUE, TRUE)
weakSecurity == Security(FALSE, 6, TRUE, TRUE)

stripeIntegrations ==
  [thirdParty |-> [stripe |-> [enabled |-> TRUE]]]

CompanyName(customerId) ==
  IF customerId = "widget"
  THEN <<"W", "i", "d", " ", "G", "e", "t">>
  ELSE <<"A", "c", " ", "\t", "M", "e">>

HomeTenant(customerId) ==
  IF customerId = "widget" THEN widgetTenant ELSE acmeTenant

\* a record that passes every rule and raises no warning
BaseConfig(customerId) ==
  [customerId |-> customerId,
   customerName |-> "Customer",
   industryType |-> "spa_wellness",
   branding |-> [companyName |-> CompanyName(customerId),
                 colors |-> [primary |-> "#2D5AA0", secondary |-> "#E8B931",
                             accent |-> "#101010", background |-> "#FFFFFF",
                             text |-> "#2C3E50"],
                 fonts |-> [primary |-> "Montserrat",
                            secondary |-> "Playfair"]],
   locations |-> <<okLocation>>,
   compliance |-> declaredCompliance,
   security |-> strongSecurity,
   tenants |-> <<HomeTenant(customerId)>>,
   integrations |-> stripeIntegrations,
   environment |-> "production"]

CustomerIds == {"acme", "widget"}

\* records that differ from the base in the sections the resolver and the
\* derived views read
VariantConfigs(customerId) ==
  LET base == BaseConfig(customerId)
      inactive == With(HomeTenant(customerId), "isActive", FALSE)
  IN { base,
       Without(Without(
         With(With(base, "tenants", <<inactive>>),
              "compliance", reorderedCompliance),
         "integrations"), "environment"),
       Without(Without(
         With(With(base, "tenants", <<inactive, exactTenant>>),
              "integrations", [thirdParty |-> <<>>]),
         "compliance"), "security"),
       With(With(base, "security", weakSecurity),
            "integrations", [api |-> [enabled |-> FALSE]]),
       With(With(base, "compliance", extraCompliance),
            "security", With(weakSecurity, "encryption", [algorithm |-> "AES"])),
       With(With(base, "compliance", gdprOnlyCompliance),
            "tenants", <<HomeTenant(customerId), inactive>>) }

\* records the validator rejects, and one it cannot finish reading
RejectedConfigs ==
  { Without(BaseConfig("acme"), "security"),
    With(BaseConfig("widget"), "security", Security(TRUE, 12, TRUE, FALSE)),
    With(BaseConfig("acme"), "tenants", <<>>),
    With(Without(BaseConfig("widget"), "locations"), "customerName", ""),
    With(BaseConfig("acme"), "locations", <<okLocation, undefinedEntry>>) }

\* records the validator admits whose branding leaves out what
\* IBrandingConfig marks optional (accent, fonts.secondary) and what the
\* validator does not ask for (fonts)
BrandingVariants(customerId) ==
  LET base == BaseConfig(customerId)
      branding == base.branding
  IN { With(base, "branding",
            With(With(branding, "colors", Without(branding.colors, "accent")),
                 "fonts", [primary |-> "Montserrat"])),
       With(base, "branding", Without(branding, "fonts")) }

\* the records loadConfigurations may be handed
LoadableConfigs ==
  UNION {VariantConfigs(id) \cup BrandingVariants(id) : id \in CustomerIds}
    \cup RejectedConfigs

\* the base record with each rule of the validator kept or broken
BrokenRules == [1..7 -> BOOLEAN]

RuleBreaking(b) ==
  LET base == BaseConfig("acme")
      c1 == IF b[1] THEN With(base, "customerId", "") ELSE base
      c2 == IF b[2] THEN Without(c1, "customerName") ELSE c1
      c3 == IF b[3] THEN With(c2, "industryType", "") ELSE c2
      c4 == IF b[4]
            THEN With(c3, "branding", With(c3.branding, "companyName", <<>>))
            ELSE c3
      c5 == IF b[5]
            THEN With(c4, "branding", Without(c4.branding, "colors"))
            ELSE c4
      c6 == IF b[6] \/ b[7]
            THEN With(c5, "security",
                      With(strongSecurity, "encryption",
                           [dataAtRest |-> ~b[6], dataInTransit |-> ~b[7]]))
            ELSE c5
  IN c6

\* the other shapes a missing required field takes
ShapeConfigs ==
  LET base == BaseConfig("widget")
  IN { Without(base, "customerId"),
       Without(base, "industryType"),
       Without(base, "branding"),
       With(base, "branding", [colors |-> [primary |-> ""]]),
       With(base, "branding",
            [companyName |-> CompanyName("widget"), colors |-> <<>>]),
       Without(Without(base, "tenants"), "locations"),
       Without(base, "compliance"),
       With(base, "compliance", <<Entry("hipaa", Block(TRUE))>>),
       With(base, "security", Without(strongSecurity, "encryption")),
       With(base, "security", [encryption |-> [algorithm |-> "AES"]]),
       With(base, "security", Security(TRUE, 12, FALSE, TRUE)),
       With(With(base, "security", Security(FALSE, 6, FALSE, FALSE)),
            "customerName", "") }

\* every locations list and every tenants list up to the bounds, in a record
\* that is otherwise sound and in one that breaks every other rule
ListConfigs ==
  LET sound == BaseConfig("acme")
      broken == RuleBreaking([r \in 1..7 |-> TRUE])
  IN    { With(With(base, "locations", ls), "tenants", ts) :
            base \in {sound, broken},
            ls \in SeqsUpTo(LocationEntries, MaxLocations),
            ts \in {sound.tenants, <<>>} }
   \cup { With(With(base, "tenants", ts), "locations", ls) :
            base \in {sound, broken},
            ts \in SeqsUpTo(TenantEntries, MaxTenants),
            ls \in {sound.locations,
                    <<Without(okLocation, "id"), With(okLocation, "name", "")>>} }

\* the values the exported validateCustomerConfig is called with
ServedConfigs == LoadableConfigs \cup ShapeConfigs

\* the values the validator is applied to on its own
Configs ==
  ServedConfigs \cup {RuleBreaking(b) : b \in BrokenRules} \cup ListConfigs

(***************************************************************************)
(* The store: a Map, its entries in insertion order                        *)
(***************************************************************************)
MapHas(m, k) == EntryHas(m, k)
MapGet(m, k) == EntryGet(m, k)
MapKeys(m) == [i \in 1..Len(m) |-> m[i].key]
MapValues(m) == [i \in 1..Len(m) |-> m[i].value]

\* a set that leaves the entry of a key the map already holds
MapSet_keepFirst(m, k, v) ==
  IF MapHas(m, k) THEN m ELSE Append(m, Entry(k, v))

\* a set that removes the entry of a key the map holds and appends the new one
MapSet_moveToEnd(m, k, v) ==
  Append(SelectSeq(m, LAMBDA e : e.key # k), Entry(k, v))

\* Map.prototype.set: a key the map holds keeps its position
MapSet(m, k, v) ==
  IF MapHas(m, k)
  THEN [i \in 1..Len(m) |-> IF m[i].key = k THEN Entry(k, v) ELSE m[i]]
  ELSE Append(m, Entry(k, v))

\* registerConfig that also turns a config with warnings away
registerConfig_warningsBlock(m, config) ==
  LET validation == validateConfig(config)
  IN IF validation.kind = "throw"
     THEN [configs |-> m, out |-> validation]
     ELSE IF ~validation.value.isValid \/ Len(validation.value.warnings) > 0
     THEN [configs |-> m, out |-> Throw("Error")]
     ELSE [configs |-> MapSet(m, config.customerId, config),
           out |-> Undefined]

\* registerConfig on the store m: the store it leaves and what it produces
registerConfig(m, config) ==
  LET validation == validateConfig(config)
  IN IF validation.kind = "throw"
     THEN [configs |-> m, out |-> validation]
     ELSE IF ~validation.value.isValid
     THEN [configs |-> m, out |-> Throw("Error")]
     ELSE [configs |-> MapSet(m, config.customerId, config),
           out |-> Undefined]

(***************************************************************************)
(* Strings                                                                 *)
(***************************************************************************)
Uppers ==
  << "A", "B", "C", "D", "E", "F", "G", "H", "I", "J", "K", "L", "M",
     "N", "O", "P", "Q", "R", "S", "T", "U", "V", "W", "X", "Y", "Z" >>
Lowers ==
  << "a", "b", "c", "d", "e", "f", "g", "h", "i", "j", "k", "l", "m",
     "n", "o", "p", "q", "r", "s", "t", "u", "v", "w", "x", "y", "z" >>
\* the characters the pattern \s matches, among those the records use
Whitespace == {" ", "\t", "\n", "\r"}

LowerChar(ch) ==
  IF \E i \in 1..Len(Uppers) : Uppers[i] = ch
  THEN Lowers[CHOOSE i \in 1..Len(Uppers) : Uppers[i] = ch]
  ELSE ch

toLowerCase(str) == [i \in 1..Len(str) |-> LowerChar(str[i])]
\* str.replace(/\s+/g, '')
RemoveWhitespace(str) == SelectSeq(str, LAMBDA ch : ch \notin Whitespace)
\* str.includes(sub)
Includes(str, sub) ==
  \E i \in 0..(Len(str) - Len(sub)) : SubSeq(str, i + 1, i + Len(sub)) = sub

\* key.toUpperCase() on the property names the compliance records use
toUpperCase(key) ==
  CASE key = "hipaa" -> "HIPAA"
    [] key = "gdpr" -> "GDPR"
    [] key = "sox" -> "SOX"
    [] key = "pciDss" -> "PCIDSS"
    [] key = "ccpa" -> "CCPA"
    [] key = "requiredFrameworks" -> "REQUIREDFRAMEWORKS"

(***************************************************************************)
(* Resolver and derived views, reading the store                           *)
(***************************************************************************)
getCustomerConfig(customerId) ==
  IF MapHas(configs, customerId) THEN Ret(MapGet(configs, customerId))
  ELSE Null

getAllCustomerIds == Ret(MapKeys(configs))

isValidCustomer(customerId) == Ret(MapHas(configs, customerId))

\* the two tests getCustomerByDomain makes on one config
DomainMatches(config, domain) ==
  \/ /\ "branding" \in DOMAIN config
     /\ Includes(domain,
                 RemoveWhitespace(toLowerCase(config.branding.companyName)))
  \/ \E i \in 1..Len(config.tenants) :
        \/ config.tenants[i].domain = domain
        \/ Includes(domain, config.tenants[i].subdomain)

\* the first config whose test holds, from position i on
FirstWhere(values, i, Test(_)) ==
  LET hits == {k \in i..Len(values) : Test(values[k])}
  IN IF hits = {} THEN Null
     ELSE Ret(values[CHOOSE k \in hits : \A j \in hits : k <= j])

\* a lookup that tries the brand slug of every config before any tenant
ByDomainFrom_slugsFirst(values, i, domain) ==
  LET BySlug(config) ==
        Includes(domain,
                 RemoveWhitespace(toLowerCase(config.branding.companyName)))
      ByTenant(config) ==
        \E t \in 1..Len(config.tenants) :
          \/ config.tenants[t].domain = domain
          \/ Includes(domain, config.tenants[t].subdomain)
  IN IF FirstWhere(values, i, BySlug) # Null
     THEN FirstWhere(values, i, BySlug)
     ELSE FirstWhere(values, i, ByTenant)

\* the loop of getCustomerByDomain over the values from position i on
RECURSIVE ByDomainFrom(_, _, _)
ByDomainFrom(values, i, domain) ==
  IF i > Len(values) THEN Null
  ELSE IF DomainMatches(values[i], domain) THEN Ret(values[i])
  ELSE ByDomainFrom(values, i + 1, domain)

getCustomerByDomain(domain) == ByDomainFrom(MapValues(configs), 1, domain)

\* a filter that looks at the first tenant only
HasActiveTenant_firstOnly(config) == config.tenants[1].isActive

HasActiveTenant(config) ==
  \E i \in 1..Len(config.tenants) : config.tenants[i].isActive

getActiveCustomers == Ret(SelectSeq(MapValues(configs), HasActiveTenant))

validateCustomerConfig(config) == validateConfig(config)

getCustomerEnvironment(customerId) ==
  LET config == getCustomerConfig(customerId)
  IN IF config.kind = "value" /\ ~FalsyStr(config.value, <<"environment">>)
     THEN Ret(config.value.environment)
     ELSE Ret("development")

\* the filter of getCustomerComplianceFrameworks on one entry
EnabledEntry(entry) == TruthyBool(entry.value, <<"enabled">>)

getCustomerComplianceFrameworks(customerId) ==
  LET config == getCustomerConfig(customerId)
  IN IF config.kind # "value" THEN Ret(<<>>)
     ELSE IF "compliance" \notin DOMAIN config.value THEN Throw("TypeError")
     ELSE LET enabled == SelectSeq(config.value.compliance, EnabledEntry)
          IN Ret([i \in 1..Len(enabled) |-> toUpperCase(enabled[i].key)])

\* the value of a property that is absent
undefined == "undefined value"
Prop(o, k) == IF k \in DOMAIN o THEN o[k] ELSE undefined
\* a || b on strings
OrElse(a, b) == IF a = undefined \/ a = "" THEN b ELSE a

getCustomerBrandingVars(customerId) ==
  LET config == getCustomerConfig(customerId)
  IN IF config.kind # "value" \/ "branding" \notin DOMAIN config.value
     THEN Ret(<<>>)
     ELSE LET branding == config.value.branding
          IN IF "colors" \notin DOMAIN branding \/ "fonts" \notin DOMAIN branding
             THEN Throw("TypeError")
             ELSE LET colors == branding.colors
                      fonts == branding.fonts
                  IN Ret(   ("--primary-color" :> Prop(colors, "primary"))
                         @@ ("--secondary-color" :> Prop(colors, "secondary"))
                         @@ ("--accent-color" :>
                               OrElse(Prop(colors, "accent"), "#F5F5F5"))
                         @@ ("--background-color" :>
                               Prop(colors, "background"))
                         @@ ("--text-color" :> Prop(colors, "text"))
                         @@ ("--primary-font" :> Prop(fonts, "primary"))
                         @@ ("--secondary-font" :>
                               OrElse(Prop(fonts, "secondary"),
                                      Prop(fonts, "primary"))))

\* tenants.find(tenant => tenant.subdomain === subdomain) from position i on
RECURSIVE FindTenant(_, _, _)
FindTenant(tenants, i, subdomain) ==
  IF i > Len(tenants) THEN Undefined
  ELSE IF /\ "subdomain" \in DOMAIN tenants[i]
          /\ tenants[i].subdomain = subdomain
  THEN Ret(tenants[i])
  ELSE FindTenant(tenants, i + 1, subdomain)

getCustomerTenantBySubdomain(customerId, subdomain) ==
  LET config == getCustomerConfig(customerId)
  IN IF config.kind # "value" THEN Null
     ELSE FindTenant(config.value.tenants, 1, subdomain)

getCustomerIntegrationConfig(customerId, integrationName) ==
  LET config == getCustomerConfig(customerId)
  IN IF config.kind # "value" THEN Null
     ELSE IF ~HasPath(config.value, <<"integrations", "thirdParty">>)
     THEN Throw("TypeError")
     ELSE IF integrationName \in DOMAIN config.value.integrations.thirdParty
     THEN Ret(config.value.integrations.thirdParty[integrationName])
     ELSE Null

(***************************************************************************)
(* Arguments of the public operations                                      *)
(***************************************************************************)
LookupIds == CustomerIds \cup {"unknown"}

Domains ==
  { <<"w", ".", "a", "c", "m", "e">>,
    <<"a", "c", ".", "i", "o">>,
    <<"x", ".", "i", "o">>,
    <<"w", "i", "d", "g", "e", "t">>,
    <<"n", "o", "n", "e">> }

Subdomains == {<<"a", "c">>, <<"w">>, <<"s", "u", "b">>, <<"n", "o">>}

IntegrationNames == {"stripe", "mailchimp"}

(***************************************************************************)
(* The program: the constructor loads the records one by one, then the    *)
(* exported singleton serves the public operations                         *)
(***************************************************************************)
Call(op, args, out) == [op |-> op, args |-> args, out |-> out]

Init ==
  /\ configs = <<>>
  /\ phase = "loading"
  /\ last = Call("new", <<>>, Undefined)
  /\ registered = [id \in CustomerIds |-> <<>>]

\* one this.registerConfig(config) of loadConfigurations; an error it raises
\* leaves the constructor, and the module never exports the registry
Register(config) ==
  /\ phase = "loading"
  /\ LET r == registerConfig(configs, config)
     IN /\ configs' = r.configs
        /\ last' = Call("registerConfig", <<config>>, r.out)
        /\ phase' = IF r.out.kind = "throw" THEN "failed" ELSE "loading"
        /\ registered' =
             IF r.out.kind = "throw" THEN registered
             ELSE [registered EXCEPT ![config.customerId] = <<config>>]

\* loadConfigurations returns and the singleton is exported
FinishLoading ==
  /\ phase = "loading"
  /\ phase' = "ready"
  /\ last' = Call("loadConfigurations", <<>>, Undefined)
  /\ UNCHANGED <<configs, registered>>

\* a public operation is called and returns (or raises) out
Serve(op, args, out) ==
  /\ phase = "ready"
  /\ last' = Call(op, args, out)
  /\ UNCHANGED <<configs, phase, registered>>

GetCustomerConfig(customerId) ==
  Serve("getCustomerConfig", <<customerId>>, getCustomerConfig(customerId))

GetAllCustomerIds == Serve("getAllCustomerIds", <<>>, getAllCustomerIds)

IsValidCustomer(customerId) ==
  Serve("isValidCustomer", <<customerId>>, isValidCustomer(customerId))

GetCustomerByDomain(domain) ==
  Serve("getCustomerByDomain", <<domain>>, getCustomerByDomain(domain))

GetActiveCustomers == Serve("getActiveCustomers", <<>>, getActiveCustomers)

\* a validateCustomerConfig that also registers the config it validated
ValidateCustomerConfig_registers(config) ==
  /\ phase = "ready"
  /\ last' = Call("validateCustomerConfig", <<config>>,
                  validateCustomerConfig(config))
  /\ configs' = registerConfig(configs, config).configs
  /\ UNCHANGED <<phase, registered>>

ValidateCustomerConfig(config) ==
  Serve("validateCustomerConfig", <<config>>, validateCustomerConfig(config))

GetCustomerEnvironment(customerId) ==
  Serve("getCustomerEnvironment", <<customerId>>,
        getCustomerEnvironment(customerId))

GetCustomerComplianceFrameworks(customerId) ==
  Serve("getCustomerComplianceFrameworks", <<customerId>>,
        getCustomerComplianceFrameworks(customerId))

GetCustomerBrandingVars(customerId) ==
  Serve("getCustomerBrandingVars", <<customerId>>,
        getCustomerBrandingVars(customerId))

GetCustomerTenantBySubdomain(customerId, subdomain) ==
  Serve("getCustomerTenantBySubdomain", <<customerId, subdomain>>,
        getCustomerTenantBySubdomain(customerId, subdomain))

GetCustomerIntegrationConfig(customerId, integrationName) ==
  Serve("getCustomerIntegrationConfig", <<customerId, integrationName>>,
        getCustomerIntegrationConfig(customerId, integrationName))

Next ==
  \/ \E config \in LoadableConfigs : Register(config)
  \/ FinishLoading
  \/ \E customerId \in LookupIds : GetCustomerConfig(customerId)
  \/ GetAllCustomerIds
  \/ \E customerId \in LookupIds : IsValidCustomer(customerId)
  \/ \E domain \in Domains : GetCustomerByDomain(domain)
  \/ GetActiveCustomers
  \/ \E config \in ServedConfigs : ValidateCustomerConfig(config)
  \/ \E customerId \in LookupIds : GetCustomerEnvironment(customerId)
  \/ \E customerId \in LookupIds : GetCustomerComplianceFrameworks(customerId)
  \/ \E customerId \in LookupIds : GetCustomerBrandingVars(customerId)
  \/ \E customerId \in LookupIds, subdomain \in Subdomains :
       GetCustomerTenantBySubdomain(customerId, subdomain)
  \/ \E customerId \in LookupIds, integrationName \in IntegrationNames :
       GetCustomerIntegrationConfig(customerId, integrationName)

Spec == Init /\ [][Next]_vars

(***************************************************************************)
(* The validator on its own: validateConfig applied to one value           *)
(***************************************************************************)
ValidatorInit ==
  /\ configs = <<>>
  /\ phase = "validator"
  /\ \E config \in Configs : last = Call("input", <<config>>, Undefined)
  /\ registered = [id \in CustomerIds |-> <<>>]

Validate ==
  /\ phase = "validator"
  /\ last.op = "input"
  /\ last' = Call("validateConfig", last.args, validateConfig(last.args[1]))
  /\ UNCHANGED <<configs, phase, registered>>

ValidatorNext == Validate

ValidatorSpec == ValidatorInit /\ [][ValidatorNext]_vars

(***************************************************************************)
(* Properties                                                              *)
(***************************************************************************)
\* validate(config) reports zero errors
ReportsNoErrors(config) ==
  /\ validateConfig(config).kind = "value"
  /\ validateConfig(config).value.errors = <<>>

\* a step that is one call of registerConfig
IsRegisterStep == phase = "loading" /\ last'.op = "registerConfig"

\* what C1 says of one call of registerConfig
AdmitsIffNoErrors ==
  LET config == last'.args[1]
  IN IF ReportsNoErrors(config)
     THEN /\ last'.out.kind # "throw"
          /\ phase' = "loading"
          /\ MapHas(configs', config.customerId)
          /\ MapGet(configs', config.customerId) = config
     ELSE /\ last'.out.kind = "throw"
          /\ phase' = "failed"
          /\ configs' = configs

\* C1: registerConfig adds the config to the store exactly when validateConfig
\* reports no error, warnings or not; otherwise it raises and leaves the store
\* as it was; so every config in the store passes validation with no errors.
C1_RegisterAdmitsIffNoErrors ==
  /\ [](\A i \in 1..Len(configs) : ReportsNoErrors(configs[i].value))
  /\ [][IsRegisterStep => AdmitsIffNoErrors]_vars

\* a config with warnings is in the store and a later registration has failed
C1_Witness ==
  /\ phase = "failed"
  /\ last.op = "registerConfig"
  /\ last.out = Throw("Error")
  /\ \E i \in 1..Len(configs) :
       validateConfig(configs[i].value).value.warnings # <<>>

\* compliance.hipaa.enabled is true and security.encryption.dataAtRest is
\* false or absent
HipaaWithoutAtRest(config) ==
  /\ HasPath(config, <<"compliance">>)
  /\ \E i \in 1..Len(config.compliance) :
       /\ config.compliance[i].key = "hipaa"
       /\ config.compliance[i].value.enabled = TRUE
  /\ \/ ~HasPath(config, <<"security", "encryption", "dataAtRest">>)
     \/ config.security.encryption.dataAtRest = FALSE

\* compliance.pciDss.enabled is true and security.encryption.dataInTransit is
\* false or absent
PciWithoutInTransit(config) ==
  /\ HasPath(config, <<"compliance">>)
  /\ \E i \in 1..Len(config.compliance) :
       /\ config.compliance[i].key = "pciDss"
       /\ config.compliance[i].value.enabled = TRUE
  /\ \/ ~HasPath(config, <<"security", "encryption", "dataInTransit">>)
     \/ config.security.encryption.dataInTransit = FALSE

\* C2: validateConfig never returns isValid = true for a config with HIPAA
\* enabled and no at-rest encryption, or PCI-DSS enabled and no in-transit
\* encryption (flag false, flag absent or section absent), and no config in
\* the store is such a config.
C2_ComplianceNeedsEncryption ==
  /\ \A i \in 1..Len(configs) :
       /\ ~HipaaWithoutAtRest(configs[i].value)
       /\ ~PciWithoutInTransit(configs[i].value)
  /\ (/\ last.op = "validateCustomerConfig"
      /\ \/ HipaaWithoutAtRest(last.args[1])
         \/ PciWithoutInTransit(last.args[1]))
       => /\ last.out.kind = "value"
          /\ last.out.value.isValid = FALSE
          /\ last.out.value.errors # <<>>

\* validateCustomerConfig has turned down a HIPAA config that has no
\* encryption section, while the store holds a HIPAA config with encryption
C2_Witness ==
  /\ last.op = "validateCustomerConfig"
  /\ HipaaWithoutAtRest(last.args[1])
  /\ ~HasPath(last.args[1], <<"security", "encryption">>)
  /\ last.out.value.isValid = FALSE
  /\ \E i \in 1..Len(configs) :
       ComplianceEnabled(configs[i].value, "hipaa")

\* one rule of the validator: the entry it reports and whether it is violated
Rule(message, violated) == [message |-> message, violated |-> violated]

\* the property is absent or the empty string
EmptyString(o, field) == field \notin DOMAIN o \/ o[field] = ""
EmptyChars(o, field) == field \notin DOMAIN o \/ o[field] = <<>>

\* no list of the config has an absent entry
EntriesPresent(config) ==
  \A list \in {"locations", "tenants"} \cap DOMAIN config :
    \A i \in 1..Len(config[list]) : config[list][i] # undefinedEntry

\* the three rules of each location, position by position (from 0)
LocationRules(config) ==
  IF "locations" \notin DOMAIN config \/ config.locations = <<>>
  THEN <<Rule("At least one location is required", TRUE)>>
  ELSE [k \in 1..(3 * Len(config.locations)) |->
          LET index == (k - 1) \div 3
              location == config.locations[index + 1]
              prefix == "Location " \o ToString(index) \o " missing "
          IN CASE (k - 1) % 3 = 0 ->
                    Rule(prefix \o "id", EmptyString(location, "id"))
               [] (k - 1) % 3 = 1 ->
                    Rule(prefix \o "name", EmptyString(location, "name"))
               [] (k - 1) % 3 = 2 ->
                    Rule(prefix \o "address.street",
                         \/ "address" \notin DOMAIN location
                         \/ EmptyString(location.address, "street"))]

\* the two rules of each tenant, position by position (from 0)
TenantRules(config) ==
  IF "tenants" \notin DOMAIN config \/ config.tenants = <<>>
  THEN <<Rule("At least one tenant is required", TRUE)>>
  ELSE [k \in 1..(2 * Len(config.tenants)) |->
          LET index == (k - 1) \div 2
              tenant == config.tenants[index + 1]
              prefix == "Tenant " \o ToString(index) \o " missing "
          IN IF (k - 1) % 2 = 0
             THEN Rule(prefix \o "id", EmptyString(tenant, "id"))
             ELSE Rule(prefix \o "domain", EmptyChars(tenant, "domain"))]

\* every rule that applies to the config, in the fixed order
Rules(config) ==
     << Rule("customerId is required", EmptyString(config, "customerId")),
        Rule("customerName is required", EmptyString(config, "customerName")),
        Rule("industryType is required", EmptyString(config, "industryType")),
        Rule("branding.companyName is required",
             \/ "branding" \notin DOMAIN config
             \/ EmptyChars(config.branding, "companyName")),
        Rule("branding.colors.primary is required",
             \/ ~HasPath(config, <<"branding", "colors">>)
             \/ EmptyString(config.branding.colors, "primary")) >>
  \o LocationRules(config)
  \o TenantRules(config)
  \o << Rule("Data at rest encryption is required for HIPAA compliance",
             HipaaWithoutAtRest(config)),
        Rule("Data in transit encryption is required for PCI DSS compliance",
             PciWithoutInTransit(config)) >>

\* the positions of the violated rules
Violated(config) == {k \in 1..Len(Rules(config)) : Rules(config)[k].violated}

\* the k-th smallest member of a set of positions
Nth(positions, k) ==
  CHOOSE p \in positions : Cardinality({q \in positions : q < p}) = k - 1

\* C3: validateConfig reports every violated rule, once each and in the fixed
\* order of the rules, whatever else is violated, and isValid says whether
\* the list of errors is empty.
C3_ErrorsAreExhaustive ==
  (last.op = "validateConfig" /\ EntriesPresent(last.args[1]))
    => /\ last.out.kind = "value"
       /\ LET config == last.args[1]
              errors == last.out.value.errors
          IN /\ Len(errors) = Cardinality(Violated(config))
             /\ \A k \in 1..Len(errors) :
                  errors[k] = Rules(config)[Nth(Violated(config), k)].message
             /\ last.out.value.isValid <=> (errors = <<>>)

\* a result that reports required fields, two locations, the tenants and
\* both compliance rules at once
C3_Witness ==
  /\ last.op = "validateConfig"
  /\ last.out.kind = "value"
  /\ ~last.out.value.isValid
  /\ LET reported == {last.out.value.errors[k] :
                        k \in 1..Len(last.out.value.errors)}
     IN /\ "customerId is required" \in reported
        /\ "branding.colors.primary is required" \in reported
        /\ "Location 0 missing address.street" \in reported
        /\ "Location 1 missing id" \in reported
        /\ "At least one tenant is required" \in reported
        /\ "Data at rest encryption is required for HIPAA compliance"
             \in reported
        /\ "Data in transit encryption is required for PCI DSS compliance"
             \in reported

\* sub occurs in str
Substring(sub, str) ==
  \E i, j \in 0..Len(str) : i <= j /\ SubSeq(str, i + 1, j) = sub

\* branding.companyName lowercased with all whitespace removed
Slug(config) == RemoveWhitespace(toLowerCase(config.branding.companyName))

MatchesBySlug(config, domain) == Substring(Slug(config), domain)

MatchesByTenant(config, domain) ==
  \E t \in 1..Len(config.tenants) :
    \/ config.tenants[t].domain = domain
    \/ Substring(config.tenants[t].subdomain, domain)

\* C4: getCustomerByDomain returns the first config in registration order
\* that matches the domain by its slug or by one of its tenants, and null
\* exactly when no registered config matches.
C4_FirstMatchInRegistrationOrder ==
  last.op = "getCustomerByDomain"
    => LET domain == last.args[1]
           matching == {i \in 1..Len(configs) :
                          \/ MatchesBySlug(configs[i].value, domain)
                          \/ MatchesByTenant(configs[i].value, domain)}
       IN IF matching = {} THEN last.out = Null
          ELSE /\ last.out.kind = "value"
               /\ \E i \in matching :
                    /\ \A j \in matching : i <= j
                    /\ last.out.value = configs[i].value

\* the config registered first matches through a tenant only, the one
\* registered second matches through its slug, and the first is returned
C4_Witness ==
  /\ last.op = "getCustomerByDomain"
  /\ Len(configs) = 2
  /\ ~MatchesBySlug(configs[1].value, last.args[1])
  /\ MatchesByTenant(configs[1].value, last.args[1])
  /\ MatchesBySlug(configs[2].value, last.args[1])
  /\ last.out = Ret(configs[1].value)

\* C5: getCustomerConfig(id) returns the config most recently registered with
\* success under id, equal in every field, and null when there is none; a
\* registration that fails replaces nothing.
C5_LastWriteWins ==
  \A id \in LookupIds :
    getCustomerConfig(id) =
      IF id \in DOMAIN registered /\ registered[id] # <<>>
      THEN Ret(registered[id][1]) ELSE Null

\* an id registered before another one has been registered again, and the
\* store returns the config of the second registration
C5_Witness ==
  /\ last.op = "registerConfig"
  /\ last.out.kind # "throw"
  /\ Len(configs) = 2
  /\ last.args[1].customerId = configs[1].key
  /\ last.args[1] # BaseConfig(configs[1].key)
  /\ getCustomerConfig(configs[1].key) = Ret(last.args[1])

PublicOperations ==
  { "getCustomerConfig", "getAllCustomerIds", "isValidCustomer",
    "getCustomerByDomain", "getActiveCustomers", "validateCustomerConfig",
    "getCustomerEnvironment", "getCustomerComplianceFrameworks",
    "getCustomerBrandingVars", "getCustomerTenantBySubdomain",
    "getCustomerIntegrationConfig" }

\* C6: once loading has finished no step changes the store: every public
\* operation leaves the registered ids, their order and every config as they
\* were, and the registry stays in service.
C6_StoreFrozenAfterInit ==
  [][(phase = "ready" \/ last'.op \in PublicOperations)
       => (configs' = configs /\ phase' = "ready")]_vars

\* a config that is valid and not registered has been validated after
\* loading, and the store still holds the one config it was loaded with
C6_Witness ==
  /\ phase = "ready"
  /\ last.op = "validateCustomerConfig"
  /\ last.out.kind = "value"
  /\ last.out.value.isValid
  /\ Len(configs) = 1
  /\ ~MapHas(configs, last.args[1].customerId)

\* the positions of the registered configs that have an active tenant
ActivePositions ==
  {i \in 1..Len(configs) :
     \E t \in 1..Len(configs[i].value.tenants) :
       configs[i].value.tenants[t].isActive = TRUE}

\* C7: getActiveCustomers returns exactly the registered configs that have a
\* tenant with isActive = true, each once and in registration order, and a
\* second call right after returns the same sequence.
C7_ActiveCustomers ==
  /\ [](last.op = "getActiveCustomers"
          => /\ last.out.kind = "value"
             /\ Len(last.out.value) = Cardinality(ActivePositions)
             /\ \A k \in 1..Len(last.out.value) :
                  last.out.value[k] = configs[Nth(ActivePositions, k)].value)
  /\ [][(last.op = "getActiveCustomers" /\ last'.op = "getActiveCustomers")
          => last'.out = last.out]_vars

\* the first registered config has no active tenant, the second has an
\* inactive first tenant and an active second one, and it alone is returned
C7_Witness ==
  /\ last.op = "getActiveCustomers"
  /\ Len(configs) = 2
  /\ ActivePositions = {2}
  /\ ~configs[2].value.tenants[1].isActive
  /\ last.out = Ret(<<configs[2].value>>)

\* the blocks IComplianceConfig declares, in the order it declares them
DeclaredBlocks == <<"hipaa", "gdpr", "sox", "pciDss">>

BlockLabel(block) ==
  CASE block = "hipaa" -> "HIPAA"
    [] block = "gdpr" -> "GDPR"
    [] block = "sox" -> "SOX"
    [] block = "pciDss" -> "PCIDSS"

\* the config has the block and its enabled flag is true
BlockEnabled(config, block) ==
  /\ "compliance" \in DOMAIN config
  /\ \E i \in 1..Len(config.compliance) :
       /\ config.compliance[i].key = block
       /\ "enabled" \in DOMAIN config.compliance[i].value
       /\ config.compliance[i].value.enabled = TRUE

\* the labels of the enabled declared blocks, in the declared order
LabelsInDeclaredOrder(config) ==
  LET enabled == {k \in 1..Len(DeclaredBlocks) :
                    BlockEnabled(config, DeclaredBlocks[k])}
  IN [n \in 1..Cardinality(enabled) |->
        BlockLabel(DeclaredBlocks[Nth(enabled, n)])]

\* C8: getCustomerComplianceFrameworks returns, for a registered customer,
\* the labels of exactly the enabled blocks in the order HIPAA, GDPR, SOX,
\* PCIDSS whatever order the record lists them in, and nothing else; for an
\* unknown customer it returns the empty sequence.
C8_FrameworksInDeclaredOrder ==
  last.op = "getCustomerComplianceFrameworks"
    => IF MapHas(configs, last.args[1])
       THEN last.out =
              Ret(LabelsInDeclaredOrder(MapGet(configs, last.args[1])))
       ELSE last.out = Ret(<<>>)

\* the call looks up something the store does not have
IsLookupMiss ==
  \/ /\ last.op \in {"getCustomerConfig", "getCustomerTenantBySubdomain",
                     "getCustomerIntegrationConfig"}
     /\ ~MapHas(configs, last.args[1])
  \/ /\ last.op = "getCustomerByDomain"
     /\ \A i \in 1..Len(configs) :
          /\ ~MatchesBySlug(configs[i].value, last.args[1])
          /\ ~MatchesByTenant(configs[i].value, last.args[1])
  \/ /\ last.op = "getCustomerTenantBySubdomain"
     /\ MapHas(configs, last.args[1])
     /\ \A t \in 1..Len(MapGet(configs, last.args[1]).tenants) :
          MapGet(configs, last.args[1]).tenants[t].subdomain # last.args[2]
  \/ /\ last.op = "getCustomerIntegrationConfig"
     /\ MapHas(configs, last.args[1])
     /\ \/ ~HasPath(MapGet(configs, last.args[1]),
                    <<"integrations", "thirdParty">>)
        \/ last.args[2] \notin
             DOMAIN MapGet(configs, last.args[1]).integrations.thirdParty

\* C9: the four lookups never raise, and a lookup of an unknown customerId,
\* domain, subdomain or integration name returns an absent result, also for a
\* registered config that has no integrations section.
C9_LookupMissIsAbsent ==
  last.op \in {"getCustomerConfig", "getCustomerByDomain",
               "getCustomerTenantBySubdomain", "getCustomerIntegrationConfig"}
    => /\ last.out.kind # "throw"
       /\ IsLookupMiss => last.out.kind \in {"null", "undefined"}

\* C10: validateConfig returns a result {isValid, errors, warnings} for every
\* config value, also one with absent sections, fields or list entries, and
\* never raises.
C10_ValidateIsTotal ==
  last.op = "validateCustomerConfig"
    => /\ last.out.kind = "value"
       /\ DOMAIN last.out.value = {"isValid", "errors", "warnings"}

BrandingKeys ==
  { "--primary-color", "--secondary-color", "--accent-color",
    "--background-color", "--text-color", "--primary-font",
    "--secondary-font" }

\* C11: getCustomerBrandingVars returns, for every registered customer, a
\* mapping with exactly the seven keys, --accent-color being colors.accent or
\* "#F5F5F5" when accent is absent and --secondary-font being fonts.secondary
\* or the value of --primary-font when it is absent; for an unknown customer
\* it returns the empty mapping; it raises for no config that is registered.
C11_BrandingVars ==
  last.op = "getCustomerBrandingVars"
    => /\ last.out.kind = "value"
       /\ IF MapHas(configs, last.args[1])
          THEN LET branding == MapGet(configs, last.args[1]).branding
                   mapping == last.out.value
               IN /\ DOMAIN mapping = BrandingKeys
                  /\ mapping["--accent-color"] =
                       IF "accent" \in DOMAIN branding.colors
                       THEN branding.colors.accent ELSE "#F5F5F5"
                  /\ mapping["--secondary-font"] =
                       IF "secondary" \in DOMAIN branding.fonts
                       THEN branding.fonts.secondary
                       ELSE mapping["--primary-font"]
          ELSE last.out.value = <<>>

\* the ids getAllCustomerIds returns, in its order
AllIds == getAllCustomerIds.value

\* C12: isValidCustomer(id), getCustomerConfig(id) not being null and id
\* occurring in getAllCustomerIds() agree for every id; getAllCustomerIds()
\* holds no id twice and each id is the customerId of the config stored under
\* it; the values getActiveCustomers and getCustomerByDomain walk are in the
\* same order; and registering an id again leaves the order as it was, while a
\* new id goes to the end.
C12_IdentifierViewsAgree ==
  /\ [](/\ \A id \in LookupIds :
             /\ isValidCustomer(id).value
                  <=> (getCustomerConfig(id) # Null)
             /\ isValidCustomer(id).value
                  <=> (\E i \in 1..Len(AllIds) : AllIds[i] = id)
        /\ \A i, j \in 1..Len(AllIds) : AllIds[i] = AllIds[j] => i = j
        /\ \A i \in 1..Len(AllIds) :
             /\ getCustomerConfig(AllIds[i]).kind = "value"
             /\ getCustomerConfig(AllIds[i]).value.customerId = AllIds[i]
             /\ MapValues(configs)[i] = getCustomerConfig(AllIds[i]).value)
  /\ [][(IsRegisterStep /\ last'.out.kind # "throw")
          => LET id == last'.args[1].customerId
             IN MapKeys(configs') =
                  IF isValidCustomer(id).value THEN MapKeys(configs)
                  ELSE Append(MapKeys(configs), id)]_vars

\* the id registered first has been registered again after a second id, and
\* getAllCustomerIds still lists it first
C12_Witness ==
  /\ last.op = "registerConfig"
  /\ last.out.kind # "throw"
  /\ Len(AllIds) = 2
  /\ AllIds[1] = last.args[1].customerId
  /\ MapValues(configs)[1] = last.args[1]
  /\ isValidCustomer(AllIds[1]).value
  /\ ~isValidCustomer("unknown").value

====
